---- MODULE Spec2Model ----
(***************************************************************************)
(* The project ledger of the dashboard backend (src-tauri/src/lib.rs):     *)
(* toggle_task, get_projects, parse_project and extract_section.           *)
(*                                                                         *)
(* Text is modelled character by character: a string is a sequence of      *)
(* one-character strings, so that lines(), trim(), starts_with(),          *)
(* replacen(), trim_start_matches(), split(':') and to_lowercase() are     *)
(* computed the way the standard library computes them.                    *)
(***************************************************************************)
EXTENDS Naturals, Sequences, FiniteSets, TLC

VARIABLES
    dir,        \* the projects directory: entries in enumeration order
    last,       \* the last command invoked: [op, id, k, wrote]
    ret,        \* what the last command returned: [ok, err, projects]
    before,     \* the directory as it was when the last command started
    run,        \* length (capped at 2) of the current run of identical successful toggles
    runStart,   \* the directory as it was when that run started
    proc,       \* the concurrent toggle_task calls: [pc, k, content, ok, order]
    listable,   \* whether the projects directory can be read (fs::read_dir succeeds)
    orig,       \* the directory as it was before any command
    odd         \* the tasks <<id, ordinal>> toggled successfully an odd number of times

vars == <<dir, last, ret, before, run, runStart, proc, listable, orig, odd>>

----------------------------------------------------------------------------
(* Bounds of the model. *)

\* Longest document of the toggle specifications, in lines.
MaxLines == 2
\* Longest directory of the listing specification, in entries.
MaxFiles == 4
\* Longest metadata document of the parsing specification, in lines.
MaxMetaLines == 3
\* Longest section document of the parsing specification, in lines.
MaxSectionLines == 4
\* Longest task document of the parsing specification, in lines.
MaxTaskLines == 2

----------------------------------------------------------------------------
(* String literals of the source, as character sequences. *)

LF == "\n"
CR == "\r"
Empty == << >>

CheckboxPrefix == <<"-", " ", "[">>
MarkLower == <<"-", " ", "[", "x", "]">>
MarkUpper == <<"-", " ", "[", "X", "]">>
MarkOpen  == <<"-", " ", "[", " ", "]">>
StripLower == <<"-", " ", "[", "x", "]", " ">>
StripUpper == <<"-", " ", "[", "X", "]", " ">>
StripOpen  == <<"-", " ", "[", " ", "]", " ">>
H1Prefix == <<"#", " ">>
H2Prefix == <<"#", "#", " ">>
SectionName == <<"D", "e", "s", "c", "r", "i", "p", "t", "i", "o", "n">>
StatusKey == <<"s", "t", "a", "t", "u", "s", ":">>
CategoryKey == <<"c", "a", "t", "e", "g", "o", "r", "y", ":">>
StatusSkip == <<"S", "t", "a", "t", "u", "s", ":">>
CreatedSkip == <<"C", "r", "e", "a", "t", "e", "d", ":">>
PrioritySkip == <<"P", "r", "i", "o", "r", "i", "t", "y", ":">>
ActiveWord == <<"a", "c", "t", "i", "v", "e">>
DefaultStatus == <<"U", "n", "k", "n", "o", "w", "n">>
DefaultCategory == <<"p", "e", "r", "s", "o", "n", "a", "l">>
MdExt == <<"m", "d">>
ReadFailed == "Failed to read project file"
WriteFailed == "Failed to write project file"

----------------------------------------------------------------------------
(* The standard-library string operations the source calls. *)

\* str::starts_with
StartsWith(s, p) == Len(p) <= Len(s) /\ SubSeq(s, 1, Len(p)) = p

\* char::is_whitespace, on the characters of the model's alphabet
IsWhitespace(c) == c \in {" ", "\t", "\n", "\r"}

RECURSIVE TrimStart(_)
TrimStart(s) ==
    IF s # Empty /\ IsWhitespace(Head(s)) THEN TrimStart(Tail(s)) ELSE s

RECURSIVE TrimEnd(_)
TrimEnd(s) ==
    IF s # Empty /\ IsWhitespace(s[Len(s)])
    THEN TrimEnd(SubSeq(s, 1, Len(s) - 1))
    ELSE s

\* str::trim
Trim(s) == TrimEnd(TrimStart(s))

\* str::trim_start_matches: the prefix is removed as often as it matches
RECURSIVE TrimStartMatches(_, _)
TrimStartMatches(s, p) ==
    IF p # Empty /\ StartsWith(s, p)
    THEN TrimStartMatches(SubSeq(s, Len(p) + 1, Len(s)), p)
    ELSE s

\* str::find: the position of the first occurrence of p in s, 0 if there is none
FindFirst(s, p) ==
    LET hits == {i \in 1..(Len(s) + 1) : StartsWith(SubSeq(s, i, Len(s)), p)}
    IN  IF hits = {} THEN 0 ELSE CHOOSE i \in hits : \A j \in hits : i <= j

\* str::contains
Contains(s, p) == FindFirst(s, p) # 0

\* str::replacen(from, to, 1): the first occurrence only
ReplaceFirst(s, from, to) ==
    LET i == FindFirst(s, from)
    IN  IF i = 0 THEN s
        ELSE SubSeq(s, 1, i - 1) \o to \o SubSeq(s, i + Len(from), Len(s))

UpperToLower ==
    ("A" :> "a") @@ ("B" :> "b") @@ ("C" :> "c") @@ ("D" :> "d") @@ ("E" :> "e") @@
    ("F" :> "f") @@ ("G" :> "g") @@ ("H" :> "h") @@ ("I" :> "i") @@ ("J" :> "j") @@
    ("K" :> "k") @@ ("L" :> "l") @@ ("M" :> "m") @@ ("N" :> "n") @@ ("O" :> "o") @@
    ("P" :> "p") @@ ("Q" :> "q") @@ ("R" :> "r") @@ ("S" :> "s") @@ ("T" :> "t") @@
    ("U" :> "u") @@ ("V" :> "v") @@ ("W" :> "w") @@ ("X" :> "x") @@ ("Y" :> "y") @@
    ("Z" :> "z")

\* str::to_lowercase
ToLowercase(s) ==
    [i \in 1..Len(s) |-> IF s[i] \in DOMAIN UpperToLower THEN UpperToLower[s[i]] ELSE s[i]]

\* str::split(':').nth(1).unwrap_or(""): the text between the first colon and
\* the second one (or the end of the line)
SplitColonSecond(s) ==
    LET i == FindFirst(s, <<":">>)
    IN  IF i = 0 THEN Empty
        ELSE LET rest == SubSeq(s, i + 1, Len(s))
                 j == FindFirst(rest, <<":">>)
             IN  IF j = 0 THEN rest ELSE SubSeq(rest, 1, j - 1)

\* str::lines: split after every "\n"; each piece loses its "\n" and then one
\* "\r" before it; a last piece without "\n" is kept as it is, an empty one is not a line
RECURSIVE LinesFrom(_, _)
LinesFrom(s, cur) ==
    IF s = Empty THEN (IF cur = Empty THEN << >> ELSE <<cur>>)
    ELSE IF Head(s) = LF
         THEN <<(IF cur # Empty /\ cur[Len(cur)] = CR
                 THEN SubSeq(cur, 1, Len(cur) - 1) ELSE cur)>>
              \o LinesFrom(Tail(s), Empty)
         ELSE LinesFrom(Tail(s), Append(cur, Head(s)))

Lines(content) == LinesFrom(content, Empty)

\* [String]::join(sep)
RECURSIVE Join(_, _)
Join(lines, sep) ==
    IF lines = << >> THEN Empty
    ELSE IF Len(lines) = 1 THEN lines[1]
    ELSE lines[1] \o sep \o Join(Tail(lines), sep)

----------------------------------------------------------------------------
(* extract_section and parse_project. *)

None == [some |-> FALSE, value |-> Empty]
Some(v) == [some |-> TRUE, value |-> v]

\* format!("## {}", section)
SectionHeader(section) == H2Prefix \o section

\* What a bug would make of ExtractLoop: the next "## " line does not end the section.
RECURSIVE ExtractLoopNoBreak(_, _, _, _)
ExtractLoopNoBreak(lines, header, i, in_section) ==
    IF i > Len(lines) THEN None
    ELSE IF StartsWith(lines[i], header) THEN ExtractLoopNoBreak(lines, header, i + 1, TRUE)
    ELSE IF in_section /\ lines[i] # Empty THEN Some(lines[i])
    ELSE ExtractLoopNoBreak(lines, header, i + 1, in_section)

\* The for loop of extract_section from line i on. The loop leaves at the first
\* non-empty line of the section (the result) or at the next "## " line (no result).
RECURSIVE ExtractLoop(_, _, _, _)
ExtractLoop(lines, header, i, in_section) ==
    IF i > Len(lines) THEN None
    ELSE IF StartsWith(lines[i], header) THEN ExtractLoop(lines, header, i + 1, TRUE)
    ELSE IF in_section
         THEN IF StartsWith(lines[i], H2Prefix) THEN None
              ELSE IF lines[i] # Empty THEN Some(lines[i])
              ELSE ExtractLoop(lines, header, i + 1, in_section)
         ELSE ExtractLoop(lines, header, i + 1, in_section)

extract_section(content, section) ==
    ExtractLoop(Lines(content), SectionHeader(section), 1, FALSE)

\* The skip_while predicate of the description fallback.
FallbackSkips(l) ==
    \/ StartsWith(l, <<"#">>)
    \/ StartsWith(l, StatusSkip)
    \/ StartsWith(l, CreatedSkip)
    \/ StartsWith(l, PrioritySkip)
    \/ l = Empty

\* lines.iter().skip_while(..).next()
RECURSIVE FallbackFrom(_, _)
FallbackFrom(lines, i) ==
    IF i > Len(lines) THEN None
    ELSE IF FallbackSkips(lines[i]) THEN FallbackFrom(lines, i + 1)
    ELSE Some(lines[i])

DescriptionOf(content) ==
    LET sec == extract_section(content, SectionName)
        fb == FallbackFrom(Lines(content), 1)
    IN  IF sec.some THEN sec.value
        ELSE IF fb.some THEN fb.value
        ELSE Empty

\* lines.iter().find(|l| l.starts_with("# "))
IsH1(l) == StartsWith(l, H1Prefix)

NameOf(lines, stem) ==
    LET hits == SelectSeq(lines, IsH1)
    IN  IF hits # << >> THEN TrimStartMatches(hits[1], H1Prefix) ELSE stem

\* What a bug would make of KeyValue: the key is looked for on the trimmed line.
KeyValueTrimmed(lines, key, default) ==
    LET hits == SelectSeq(lines, LAMBDA l : StartsWith(ToLowercase(Trim(l)), key))
    IN  IF hits # << >> THEN Trim(SplitColonSecond(hits[1])) ELSE default

\* lines.iter().find(|l| l.to_lowercase().starts_with(key))
\*     .map(|l| l.split(':').nth(1).unwrap_or("").trim())
KeyValue(lines, key, default) ==
    LET hits == SelectSeq(lines, LAMBDA l : StartsWith(ToLowercase(l), key))
    IN  IF hits # << >> THEN Trim(SplitColonSecond(hits[1])) ELSE default

\* The filter of the task extraction: l.trim().starts_with("- [")
IsTaskLine(l) == StartsWith(Trim(l), CheckboxPrefix)

\* What a bug would make of TaskDone: the space after the marker is required.
TaskDoneWithSpace(trimmed) == StartsWith(trimmed, StripLower) \/ StartsWith(trimmed, StripUpper)

\* trimmed.starts_with("- [x]") || trimmed.starts_with("- [X]")
TaskDone(trimmed) == StartsWith(trimmed, MarkLower) \/ StartsWith(trimmed, MarkUpper)

\* What a bug would make of TaskText: any bracketed marker is stripped.
TaskTextRepaired(trimmed) ==
    IF Len(trimmed) >= 6 /\ StartsWith(trimmed, CheckboxPrefix)
       /\ trimmed[5] = "]" /\ trimmed[6] = " "
    THEN SubSeq(trimmed, 7, Len(trimmed))
    ELSE trimmed

\* trimmed.trim_start_matches("- [x] ").trim_start_matches("- [X] ").trim_start_matches("- [ ] ")
TaskText(trimmed) ==
    TrimStartMatches(TrimStartMatches(TrimStartMatches(trimmed, StripLower), StripUpper),
                     StripOpen)

TaskOf(l) == [text |-> TaskText(Trim(l)), done |-> TaskDone(Trim(l))]

TasksOf(lines) ==
    LET found == SelectSeq(lines, IsTaskLine)
    IN  [i \in 1..Len(found) |-> TaskOf(found[i])]

parse_project(content, stem) ==
    LET lines == Lines(content)
        tasks == TasksOf(lines)
    IN  [id |-> stem,
         name |-> NameOf(lines, stem),
         status |-> KeyValue(lines, StatusKey, DefaultStatus),
         category |-> KeyValue(lines, CategoryKey, DefaultCategory),
         description |-> DescriptionOf(content),
         task_count |-> Len(tasks),
         tasks_done |-> Len(SelectSeq(tasks, LAMBDA t : t.done)),
         tasks |-> tasks]

----------------------------------------------------------------------------
(* The projects directory and the two file operations of the source. *)

FileEntry(stem, ext, readable, writable, content) ==
    [stem |-> stem, ext |-> ext, readable |-> readable, writable |-> writable,
     content |-> content]

\* projects_dir.join(format!("{}.md", project_id)): the entry the path names, 0 if none
FileIndex(d, project_id) ==
    LET hits == {i \in 1..Len(d) : d[i].stem = project_id /\ d[i].ext = MdExt}
    IN  IF hits = {} THEN 0 ELSE CHOOSE i \in hits : TRUE

\* The text of the document of project id in directory d.
ContentOf(d, id) == d[FileIndex(d, id)].content

\* What a bug would make of read_to_string: a missing file reads as empty text.
read_to_string_or_default(d, project_id) ==
    LET i == FileIndex(d, project_id)
    IN  IF i = 0 THEN Some(Empty)
        ELSE IF d[i].readable THEN Some(d[i].content) ELSE None

\* fs::read_to_string
read_to_string(d, project_id) ==
    LET i == FileIndex(d, project_id)
    IN  IF i # 0 /\ d[i].readable THEN Some(d[i].content) ELSE None

\* fs::write succeeds on a writable file and on a path that names no file yet
CanWrite(d, project_id) ==
    LET i == FileIndex(d, project_id) IN i = 0 \/ d[i].writable

\* fs::write: the file's contents are replaced; a missing file is created
fs_write(d, project_id, text) ==
    LET i == FileIndex(d, project_id)
    IN  IF i = 0 THEN Append(d, FileEntry(project_id, MdExt, TRUE, TRUE, text))
        ELSE [d EXCEPT ![i].content = text]

----------------------------------------------------------------------------
(* toggle_task. *)

\* What a bug would make of ToggleLine: the marker "- [X]" is not recognised.
ToggleLineLowerOnly(line) ==
    LET trimmed == Trim(line)
    IN  IF StartsWith(trimmed, MarkLower)
        THEN ReplaceFirst(line, MarkLower, MarkOpen)
        ELSE IF StartsWith(trimmed, MarkOpen)
        THEN ReplaceFirst(line, MarkOpen, MarkLower)
        ELSE line

\* The marker replacement on the line the ordinal selects.
ToggleLine(line) ==
    LET trimmed == Trim(line)
    IN  IF StartsWith(trimmed, MarkLower) \/ StartsWith(trimmed, MarkUpper)
        THEN ReplaceFirst(ReplaceFirst(line, MarkLower, MarkOpen), MarkUpper, MarkOpen)
        ELSE IF StartsWith(trimmed, MarkOpen)
        THEN ReplaceFirst(line, MarkOpen, MarkLower)
        ELSE line

\* What a bug would make of ToggleCounts: the line is tested as it stands.
ToggleCountsUntrimmed(line) == StartsWith(line, CheckboxPrefix)

\* The test that advances the mutator's counter: trimmed.starts_with("- [")
ToggleCounts(line) == StartsWith(Trim(line), CheckboxPrefix)

\* The for loop over lines.iter_mut() from line i on, task_num checkbox lines seen.
RECURSIVE ToggleLoop(_, _, _, _)
ToggleLoop(lines, i, task_num, task_index) ==
    IF i > Len(lines) THEN lines
    ELSE IF ToggleCounts(lines[i])
         THEN IF task_num = task_index
              THEN [lines EXCEPT ![i] = ToggleLine(lines[i])]
              ELSE ToggleLoop(lines, i + 1, task_num + 1, task_index)
         ELSE ToggleLoop(lines, i + 1, task_num, task_index)

\* What a bug would make of ToggleLines: the counter starts at 1.
ToggleLinesFromOne(lines, task_index) == ToggleLoop(lines, 1, 1, task_index)

ToggleLines(lines, task_index) == ToggleLoop(lines, 1, 0, task_index)

\* What toggle_task writes back for the text it read.
Toggled(content, task_index) == Join(ToggleLines(Lines(content), task_index), <<LF>>)

Ok == [ok |-> TRUE, err |-> "", projects |-> << >>]
Err(msg) == [ok |-> FALSE, err |-> msg, projects |-> << >>]

\* One call of toggle_task by a caller that waits for it to return.
ToggleTask(project_id, task_index) ==
    LET content == read_to_string(dir, project_id)
        samerun == /\ last.op = "toggle_task" /\ last.id = project_id
                   /\ last.k = task_index /\ ret.ok
    IN  /\ before' = dir
        /\ UNCHANGED <<proc, listable, orig>>
        /\ IF ~content.some
           THEN /\ ret' = Err(ReadFailed)
                /\ dir' = dir
                /\ last' = [op |-> "toggle_task", id |-> project_id, k |-> task_index,
                            wrote |-> FALSE]
                /\ run' = 0
                /\ runStart' = dir
                /\ odd' = odd
           ELSE IF ~CanWrite(dir, project_id)
           THEN /\ ret' = Err(WriteFailed)
                /\ dir' = dir
                /\ last' = [op |-> "toggle_task", id |-> project_id, k |-> task_index,
                            wrote |-> FALSE]
                /\ run' = 0
                /\ runStart' = dir
                /\ odd' = odd
           ELSE /\ ret' = Ok
                /\ dir' = fs_write(dir, project_id, Toggled(content.value, task_index))
                /\ last' = [op |-> "toggle_task", id |-> project_id, k |-> task_index,
                            wrote |-> TRUE]
                /\ run' = IF samerun THEN 2 ELSE 1
                /\ runStart' = IF samerun THEN before ELSE dir
                /\ odd' = IF task_index >= Len(SelectSeq(Lines(content.value), ToggleCounts))
                          THEN odd
                          ELSE IF <<project_id, task_index>> \in odd
                          THEN odd \ {<<project_id, task_index>>}
                          ELSE odd \cup {<<project_id, task_index>>}

----------------------------------------------------------------------------
(* get_projects. *)

\* status.to_lowercase().contains("active")
IsActive(project) == Contains(ToLowercase(project.status), ActiveWord)

\* bool::cmp: false < true
BoolCmp(x, y) == IF x = y THEN "Equal" ELSE IF y THEN "Less" ELSE "Greater"

\* What a bug would make of SortCmp: the operands the other way round.
SortCmpReversed(a, b) == BoolCmp(IsActive(a), IsActive(b))

\* The closure given to sort_by: b_active.cmp(&a_active)
SortCmp(a, b) == BoolCmp(IsActive(b), IsActive(a))

\* slice::sort_by is a stable sort: an element moves in front of exactly the
\* elements that compare Greater than it.
RECURSIVE InsertSorted(_, _)
InsertSorted(sorted, x) ==
    IF sorted # << >> /\ SortCmp(sorted[Len(sorted)], x) = "Greater"
    THEN Append(InsertSorted(SubSeq(sorted, 1, Len(sorted) - 1), x), sorted[Len(sorted)])
    ELSE Append(sorted, x)

RECURSIVE SortBy(_)
SortBy(seq) ==
    IF seq = << >> THEN << >>
    ELSE InsertSorted(SortBy(SubSeq(seq, 1, Len(seq) - 1)), seq[Len(seq)])

\* fs::read_dir: the entries of the directory, or an error
read_dir(d, can_list) == IF can_list THEN Some(d) ELSE None

\* What a bug would make of Collected: the first document that fails to read
\* ends the loop.
CollectedUntilUnreadable(d) ==
    LET bad == {i \in 1..Len(d) : d[i].ext = MdExt /\ ~d[i].readable}
        stop == IF bad = {} THEN Len(d) + 1 ELSE CHOOSE i \in bad : \A j \in bad : i <= j
        found == SelectSeq(SubSeq(d, 1, stop - 1), LAMBDA e : e.ext = MdExt /\ e.readable)
    IN  [i \in 1..Len(found) |-> parse_project(found[i].content, found[i].stem)]

\* The loop over read_dir: one Project per entry with extension "md" that reads as text.
Collected(d) ==
    LET found == SelectSeq(d, LAMBDA e : e.ext = MdExt /\ e.readable)
    IN  [i \in 1..Len(found) |-> parse_project(found[i].content, found[i].stem)]

\* if let Ok(entries) = fs::read_dir(..) { .. }: nothing is collected otherwise
Listed(d, can_list) ==
    LET entries == read_dir(d, can_list)
    IN  IF entries.some THEN Collected(entries.value) ELSE << >>

GetProjects ==
    /\ ret' = [ok |-> TRUE, err |-> "", projects |-> SortBy(Listed(dir, listable))]
    /\ last' = [op |-> "get_projects", id |-> Empty, k |-> 0, wrote |-> FALSE]
    /\ before' = dir
    /\ run' = 0
    /\ runStart' = dir
    /\ UNCHANGED <<dir, proc, listable, orig, odd>>

----------------------------------------------------------------------------
(* Two toggle_task calls running at the same time: each is a read of the    *)
(* file followed, later, by a write of the whole file.                      *)

Procs == {"c1", "c2"}

Idle == [pc |-> "idle", id |-> Empty, k |-> 0, content |-> Empty, ok |-> FALSE, order |-> 0]

\* fs::read_to_string of the call p, lines 77-78
ReadStep(p, project_id, task_index) ==
    LET content == read_to_string(dir, project_id)
    IN  /\ proc[p].pc = "idle"
        /\ proc' = [proc EXCEPT ![p] =
                      IF content.some
                      THEN [pc |-> "read", id |-> project_id, k |-> task_index,
                            content |-> content.value, ok |-> FALSE, order |-> 0]
                      ELSE [pc |-> "done", id |-> project_id, k |-> task_index,
                            content |-> Empty, ok |-> FALSE, order |-> 0]]
        /\ UNCHANGED <<dir, last, ret, before, run, runStart, listable, orig, odd>>

\* What a bug would make of WriteStep: the toggle is applied to the file as it
\* is at the time of the write, not to the text the call read.
WriteStepRereading(p) ==
    LET written == Cardinality({q \in Procs : proc[q].order > 0})
    IN  /\ proc[p].pc = "read"
        /\ dir' = fs_write(dir, proc[p].id, Toggled(ContentOf(dir, proc[p].id), proc[p].k))
        /\ proc' = [proc EXCEPT ![p].pc = "done", ![p].ok = TRUE, ![p].order = written + 1]
        /\ UNCHANGED <<last, ret, before, run, runStart, listable, orig, odd>>

\* The loop and fs::write of the call p, lines 80-99
WriteStep(p) ==
    LET written == Cardinality({q \in Procs : proc[q].order > 0})
    IN  /\ proc[p].pc = "read"
        /\ IF CanWrite(dir, proc[p].id)
           THEN /\ dir' = fs_write(dir, proc[p].id, Toggled(proc[p].content, proc[p].k))
                /\ proc' = [proc EXCEPT ![p].pc = "done", ![p].ok = TRUE,
                                        ![p].order = written + 1]
           ELSE /\ dir' = dir
                /\ proc' = [proc EXCEPT ![p].pc = "done"]
        /\ UNCHANGED <<last, ret, before, run, runStart, listable, orig, odd>>

----------------------------------------------------------------------------
(* The documents and directories the specifications start from. *)

\* All sequences over S of length at most n.
SeqsUpTo(S, n) == UNION {[1..m -> S] : m \in 0..n}

\* A document whose lines end the Unix way, the last line without a terminator.
RenderLF(lines) == Join(lines, <<LF>>)

\* A document whose lines, the last included, end the Windows way.
RECURSIVE RenderCRLF(_)
RenderCRLF(lines) ==
    IF lines = << >> THEN Empty
    ELSE Head(lines) \o <<CR, LF>> \o RenderCRLF(Tail(lines))

P1 == <<"p", "1">>
Locked == <<"l", "k">>
Frozen == <<"f", "z">>
Ghost == <<"g", "h">>

TogglePool ==
    { <<"-", " ", "[", " ", "]", " ", "a">>,
      <<"-", " ", "[", "x", "]", " ", "b">>,
      <<"-", " ", "[", "X", "]", " ", "c">>,
      <<"-", " ", "[", "?", "]", " ", "w">>,
      <<" ", "-", " ", "[", "x", "]", " ", "-", " ", "[", "X", "]">>,
      <<"n">>,
      <<"-", " ", "[", "x", "]">> }

ToggleDocs ==
    {RenderLF(l) : l \in SeqsUpTo(TogglePool, MaxLines)}
        \cup {RenderCRLF(l) : l \in SeqsUpTo(TogglePool, MaxLines)}

FrozenDoc == RenderLF(<<<<"-", " ", "[", "x", "]", " ", "b">>>>)

Ordinals == 0..MaxLines

ProjectIds == {P1, Locked, Frozen, Ghost}

NoCall == [op |-> "init", id |-> Empty, k |-> 0, wrote |-> FALSE]

Init ==
    /\ \E c \in ToggleDocs :
          dir = << FileEntry(P1, MdExt, TRUE, TRUE, c),
                   FileEntry(Locked, MdExt, FALSE, TRUE, FrozenDoc),
                   FileEntry(Frozen, MdExt, TRUE, FALSE, FrozenDoc) >>
    /\ last = NoCall
    /\ ret = Ok
    /\ before = dir
    /\ run = 0
    /\ runStart = dir
    /\ proc = [p \in Procs |-> Idle]
    /\ listable = TRUE
    /\ orig = dir
    /\ odd = {}

Next ==
    \/ \E id \in ProjectIds, k \in Ordinals : ToggleTask(id, k)
    \/ GetProjects

Spec == Init /\ [][Next]_vars

RaceNext ==
    \/ \E p \in Procs, k \in Ordinals : ReadStep(p, P1, k)
    \/ \E p \in Procs : WriteStep(p)

RaceSpec == Init /\ [][RaceNext]_vars

----------------------------------------------------------------------------
(* The listing specification: directories of small documents that differ in *)
(* their status, of files that cannot be read and of files that are not     *)
(* documents.                                                               *)

DocBlocked == <<"S", "t", "a", "t", "u", "s", ":", " ", "B", "l", "o", "c", "k", "e", "d">>
DocActive == <<"S", "t", "a", "t", "u", "s", ":", " ", "A", "c", "t", "i", "v", "e">>
DocDone == <<"S", "t", "a", "t", "u", "s", ":", " ", "d", "o", "n", "e">>
DocActiveIsh == <<"s", "t", "a", "t", "u", "s", ":", " ", "A", "C", "T", "I", "V", "E", "-", "i", "s", "h">>
DocNoStatus == <<"n">>

StatusDocs == {DocBlocked, DocActive, DocDone, DocActiveIsh, DocNoStatus}

TxtExt == <<"t", "x", "t">>

\* What a directory entry can be, but for its name.
EntryKinds ==
    {[ext |-> MdExt, readable |-> TRUE, content |-> c] : c \in StatusDocs}
        \cup {[ext |-> MdExt, readable |-> FALSE, content |-> Empty],
              [ext |-> TxtExt, readable |-> TRUE, content |-> Empty]}

Digits == <<"1", "2", "3", "4", "5", "6", "7", "8", "9">>

\* The name of the i-th entry: stems are unique in a directory.
StemAt(i) == <<"f", Digits[i]>>

ListInit ==
    /\ \E kinds \in SeqsUpTo(EntryKinds, MaxFiles) :
          dir = [i \in 1..Len(kinds) |->
                   FileEntry(StemAt(i), kinds[i].ext, kinds[i].readable, TRUE,
                             kinds[i].content)]
    /\ last = NoCall
    /\ ret = Ok
    /\ before = dir
    /\ run = 0
    /\ runStart = dir
    /\ proc = [p \in Procs |-> Idle]
    /\ listable \in BOOLEAN
    /\ orig = dir
    /\ odd = {}

ListNext == GetProjects

ListSpec == ListInit /\ [][ListNext]_vars

----------------------------------------------------------------------------
(* The parsing specification: one document, drawn from metadata lines,     *)
(* from the lines of a Description section or from task lines.             *)

MetaPool ==
    { <<"#", " ", "T">>,
      <<"#", " ", "#", " ", "R">>,
      <<"S", "t", "a", "t", "u", "s", ":", " ", "A">>,
      <<"s", "T", "A", "T", "U", "S", ":", "B", ":", "c">>,
      <<"C", "a", "t", "e", "g", "o", "r", "y", ":", " ", "w">>,
      <<"P", "r", "i", "o", "r", "i", "t", "y", ":", " ", "1">>,
      <<"d">>,
      Empty,
      <<" ", "s", "t", "a", "t", "u", "s", ":", " ", "q">> }

SectionPool ==
    { <<"#", "#", " ", "D", "e", "s", "c", "r", "i", "p", "t", "i", "o", "n">>,
      <<"#", "#", " ", "D", "e", "s", "c", "r", "i", "p", "t", "i", "o", "n", "s">>,
      <<"#", "#", " ", "N">>,
      Empty,
      <<"a">>,
      <<"b">>,
      <<" ">>,
      <<"#", " ", "T">> }

TaskPool ==
    { <<"-", " ", "[", "x", "]", " ", "-", " ", "[", " ", "]", " ", "m">>,
      <<"-", " ", "[", "X", "]", "z">>,
      <<"-", " ", "[", "x", "]">>,
      <<"-", " ", "[", " ", "]", " ", "a">>,
      <<" ", "-", " ", "[", "X", "]", " ", "b">>,
      <<"n">> }

ParseDocs ==
    {RenderLF(l) : l \in SeqsUpTo(MetaPool, MaxMetaLines)}
        \cup {RenderCRLF(l) : l \in SeqsUpTo(MetaPool, MaxMetaLines)}
        \cup {RenderLF(l) : l \in SeqsUpTo(SectionPool, MaxSectionLines)}
        \cup {RenderLF(l) : l \in SeqsUpTo(TaskPool, MaxTaskLines)}

ParseInit ==
    /\ \E c \in ParseDocs : dir = << FileEntry(P1, MdExt, TRUE, TRUE, c) >>
    /\ last = NoCall
    /\ ret = Ok
    /\ before = dir
    /\ run = 0
    /\ runStart = dir
    /\ proc = [p \in Procs |-> Idle]
    /\ listable = TRUE
    /\ orig = dir
    /\ odd = {}

ParseSpec == ParseInit /\ [][ListNext]_vars

----------------------------------------------------------------------------
(* Vocabulary of the properties below. *)

\* The document is missing or cannot be read.
Unreadable(d, id) ==
    \A i \in 1..Len(d) : (d[i].stem = id /\ d[i].ext = MdExt) => ~d[i].readable

\* The line-ending normalization of the write step: no CR, no final newline.
Normalized(text) == Join(Lines(text), <<LF>>)

\* Glossary: a checkbox line is a line whose trimmed content begins with "- [".
IsCheckboxLine(l) == StartsWith(Trim(l), CheckboxPrefix)

\* The number N of checkbox lines of a document.
CheckboxCount(lines) == Cardinality({i \in 1..Len(lines) : IsCheckboxLine(lines[i])})

\* The position of the checkbox line of ordinal k (0 <= k < N).
LineOfTask(lines, k) ==
    CHOOSE i \in 1..Len(lines) :
        /\ IsCheckboxLine(lines[i])
        /\ Cardinality({j \in 1..(i - 1) : IsCheckboxLine(lines[j])}) = k

\* The five characters a checkbox line's trimmed text starts with.
MarkerOf(l) == SubSeq(Trim(l), 1, 5)

WellFormed(l) == MarkerOf(l) \in {MarkOpen, MarkLower, MarkUpper}

\* The last command was a toggle_task that returned success.
ToggledOk == last.op = "toggle_task" /\ ret.ok

OldLines == Lines(ContentOf(before, last.id))
NewLines == Lines(ContentOf(dir, last.id))

----------------------------------------------------------------------------
(* C1. *)

\* C1: toggling the same (project, ordinal) twice in succession, with no other
\* writer in between, leaves the document equal to its original text but for
\* the line-ending normalization of the write step, whatever the marker of the
\* checkbox line is.
C1_DoubleToggleRestores ==
    run = 2 => ContentOf(dir, last.id) = Normalized(ContentOf(runStart, last.id))

----------------------------------------------------------------------------
(* C2. *)

\* C2: for a document with N checkbox lines parse_project returns N tasks in
\* document order, and a successful toggle_task(id, k) with k < N changes at
\* most the line parse_project reports as tasks[k]: the document keeps its
\* lines, re-parsing gives N tasks again, every task j # k is unchanged, and a
\* task k with one of the three markers has its done value flipped.
C2_OrdinalConsistency ==
    ToggledOk =>
        LET N == CheckboxCount(OldLines)
            old == parse_project(ContentOf(before, last.id), last.id).tasks
            new == parse_project(ContentOf(dir, last.id), last.id).tasks
        IN  /\ Len(old) = N
            /\ Len(new) = N
            /\ \A j \in 0..(N - 1) : old[j + 1] = TaskOf(OldLines[LineOfTask(OldLines, j)])
            /\ Len(NewLines) = Len(OldLines)
            /\ last.k < N =>
                  /\ \A j \in 0..(N - 1) : j # last.k => new[j + 1] = old[j + 1]
                  /\ \A i \in 1..Len(OldLines) :
                        i # LineOfTask(OldLines, last.k) => NewLines[i] = OldLines[i]
                  /\ WellFormed(OldLines[LineOfTask(OldLines, last.k)]) =>
                        new[last.k + 1].done = ~old[last.k + 1].done

\* A toggle of the second of two tasks, the first on an indented line, has flipped it.
C2_Witness ==
    /\ ToggledOk
    /\ last.k = 1
    /\ CheckboxCount(OldLines) = 2
    /\ OldLines[1] # Trim(OldLines[1])
    /\ parse_project(ContentOf(dir, last.id), last.id).tasks[2].done
          # parse_project(ContentOf(before, last.id), last.id).tasks[2].done

----------------------------------------------------------------------------
(* C3. *)

\* C3: toggle_task(id, k) on a readable document with k >= N modifies no line
\* and leaves the done value of all N tasks as it was; the only failure it can
\* report is that of the write itself, and where the file can be written it is
\* rewritten (with the lines it had) and the call returns success.
C3_OutOfRangeNoOp ==
    (/\ last.op = "toggle_task"
     /\ ~Unreadable(before, last.id)
     /\ last.k >= CheckboxCount(OldLines)) =>
        /\ NewLines = OldLines
        /\ parse_project(ContentOf(dir, last.id), last.id).tasks
              = parse_project(ContentOf(before, last.id), last.id).tasks
        /\ ~ret.ok => (ret.err = WriteFailed /\ ~CanWrite(before, last.id))
        /\ CanWrite(before, last.id) =>
              /\ ret.ok
              /\ last.wrote
              /\ ContentOf(dir, last.id) = Normalized(ContentOf(before, last.id))

\* An out-of-range toggle of a document with tasks has rewritten the file: the
\* CRLF line endings it had are gone.
C3_Witness ==
    /\ ToggledOk
    /\ last.id = P1
    /\ CheckboxCount(OldLines) = 2
    /\ last.k = 2
    /\ ContentOf(dir, P1) # ContentOf(before, P1)
    /\ NewLines = OldLines

----------------------------------------------------------------------------
(* C4. *)

\* The leading whitespace of a line.
LeadOf(l) == SubSeq(l, 1, Len(l) - Len(TrimStart(l)))

\* What follows the five marker characters on a checkbox line.
AfterMarker(l) == SubSeq(TrimStart(l), 6, Len(TrimStart(l)))

\* C4: a successful toggle_task(id, k) with k < N changes only the marker of the
\* k-th checkbox line ("- [x]" and "- [X]" become "- [ ]", "- [ ]" becomes
\* "- [x]"): every other line, the target line's leading whitespace and all
\* its characters after the marker are as they were.
C4_OnlyMarkerChanges ==
    (ToggledOk /\ last.k < CheckboxCount(OldLines)) =>
        LET t == LineOfTask(OldLines, last.k)
            o == OldLines[t]
            n == NewLines[t]
        IN  /\ Len(NewLines) = Len(OldLines)
            /\ \A i \in 1..Len(OldLines) : i # t => NewLines[i] = OldLines[i]
            /\ LeadOf(n) = LeadOf(o)
            /\ AfterMarker(n) = AfterMarker(o)
            /\ MarkerOf(o) \in {MarkLower, MarkUpper} => MarkerOf(n) = MarkOpen
            /\ MarkerOf(o) = MarkOpen => MarkerOf(n) = MarkLower

----------------------------------------------------------------------------
(* C5. *)

\* C5: toggle_task on a document that is missing or unreadable returns the read
\* error, writes nothing and leaves the projects directory as it was.
C5_ReadFailureAborts ==
    (last.op = "toggle_task" /\ Unreadable(before, last.id)) =>
        /\ ~ret.ok
        /\ ret.err = ReadFailed
        /\ ~last.wrote
        /\ dir = before

\* A toggle of a project that has no file has returned the read error.
C5_Witness ==
    /\ last.op = "toggle_task"
    /\ last.id = Ghost
    /\ FileIndex(before, Ghost) = 0
    /\ ret.err = ReadFailed

----------------------------------------------------------------------------
(* C6, under RaceSpec. *)

\* The calls that have written, and the one that wrote last.
Writers == {p \in Procs : proc[p].order > 0}
LastWriter == CHOOSE p \in Writers : \A q \in Writers : proc[q].order <= proc[p].order
FirstWriter == CHOOSE p \in Writers : \A q \in Writers : proc[p].order <= proc[q].order

\* C6: concurrent toggle_task calls on one document are not serialized: every
\* call that gets to its write returns success, and the document is always the
\* transformation of the last writer applied to the text that writer read, so
\* that when both calls read before either wrote only the last writer's
\* toggle is in the final text.
C6_LastWriterWins ==
    /\ \A p \in Procs : proc[p].pc = "done" => proc[p].ok
    /\ Writers # {} =>
          ContentOf(dir, P1) = Toggled(proc[LastWriter].content, proc[LastWriter].k)
    /\ (\A p \in Procs : proc[p].pc = "done" /\ proc[p].content = ContentOf(before, P1)) =>
          ContentOf(dir, P1) = Toggled(ContentOf(before, P1), proc[LastWriter].k)

\* Both calls read the original text, toggled different well-formed tasks and
\* returned success; the first writer's task is as done as it was at the start
\* and the text is not the one two toggles in turn would have given.
C6_Witness ==
    /\ \A p \in Procs : proc[p].pc = "done" /\ proc[p].ok
    /\ \A p \in Procs : proc[p].content = ContentOf(before, P1)
    /\ \A p \in Procs : proc[p].k < CheckboxCount(Lines(ContentOf(before, P1)))
    /\ \A p \in Procs :
          WellFormed(Lines(ContentOf(before, P1))[LineOfTask(Lines(ContentOf(before, P1)),
                                                            proc[p].k)])
    /\ proc[FirstWriter].k # proc[LastWriter].k
    /\ parse_project(ContentOf(dir, P1), P1).tasks[proc[FirstWriter].k + 1].done
          = parse_project(ContentOf(before, P1), P1).tasks[proc[FirstWriter].k + 1].done
    /\ ContentOf(dir, P1)
          # Toggled(Toggled(ContentOf(before, P1), proc[FirstWriter].k), proc[LastWriter].k)

----------------------------------------------------------------------------
(* C7, under ListSpec. *)

StatusIsActive(project) == Contains(ToLowercase(project.status), ActiveWord)
StatusIsNotActive(project) == ~StatusIsActive(project)

\* C7: get_projects returns the parsed projects with those whose status
\* contains "active" (in any case) first, each of the two groups in the order
\* of the directory enumeration.
C7_ActiveFirstStable ==
    last.op = "get_projects" =>
        ret.projects = SelectSeq(Listed(before, listable), StatusIsActive)
                          \o SelectSeq(Listed(before, listable), StatusIsNotActive)

\* The listing of four documents with statuses Blocked, Active, done, ACTIVE-ish.
C7_Witness ==
    /\ last.op = "get_projects"
    /\ Len(before) = 4
    /\ \A i \in 1..4 : before[i].ext = MdExt /\ before[i].readable
    /\ [i \in 1..4 |-> before[i].content] = <<DocBlocked, DocActive, DocDone, DocActiveIsh>>
    /\ [i \in 1..Len(ret.projects) |-> ret.projects[i].id]
          = <<StemAt(2), StemAt(4), StemAt(1), StemAt(3)>>

----------------------------------------------------------------------------
(* C8 and C9, under ParseSpec. *)

\* The least element of a set of positions, 0 for the empty set.
Least(S) == IF S = {} THEN 0 ELSE CHOOSE i \in S : \A j \in S : i <= j

\* The section as the claim reads it: it opens at the first line that is
\* exactly "## Description" and yields its first non-empty line, unless that
\* line is a level-2 heading.
ExactSection(lines) ==
    LET h == Least({i \in 1..Len(lines) : lines[i] = SectionHeader(SectionName)})
        j == Least({i \in (h + 1)..Len(lines) : lines[i] # Empty})
    IN  IF h = 0 \/ j = 0 \/ StartsWith(lines[j], H2Prefix) THEN None ELSE Some(lines[j])

\* The section as amended: it opens at the first line that begins with
\* "## Description", further such lines are passed over, and it yields the first
\* non-empty line after them, unless that line begins with "## ".
PrefixSection(lines) ==
    LET header == SectionHeader(SectionName)
        h == Least({i \in 1..Len(lines) : StartsWith(lines[i], header)})
        j == Least({i \in (h + 1)..Len(lines) :
                        lines[i] # Empty /\ ~StartsWith(lines[i], header)})
    IN  IF h = 0 \/ j = 0 \/ StartsWith(lines[j], H2Prefix) THEN None ELSE Some(lines[j])

\* The first line that is no heading, no Status:, Created: or Priority: line and
\* not empty, once the leading lines of those kinds are skipped.
FallbackLine(lines) ==
    LET j == Least({i \in 1..Len(lines) :
                        ~(\/ StartsWith(lines[i], <<"#">>)
                          \/ StartsWith(lines[i], StatusSkip)
                          \/ StartsWith(lines[i], CreatedSkip)
                          \/ StartsWith(lines[i], PrioritySkip)
                          \/ lines[i] = Empty)})
    IN  IF j = 0 THEN None ELSE Some(lines[j])

DescriptionBy(sec, fb) == IF sec.some THEN sec.value ELSE IF fb.some THEN fb.value ELSE Empty

ParsedLines == Lines(ContentOf(before, P1))

\* C8 as stated: the description is the first non-empty line after the first
\* line exactly matching "## Description", provided no level-2 heading comes
\* first; otherwise the fallback rule gives it.
C8_DescriptionExactHeading ==
    last.op = "get_projects" =>
        ret.projects[1].description
            = DescriptionBy(ExactSection(ParsedLines), FallbackLine(ParsedLines))

\* C8 as amended: the description is the first non-empty line after the first
\* line that begins with "## Description", lines beginning with "## Description"
\* passed over, provided that line does not begin with "## "; otherwise the
\* fallback rule gives it. Later lines never contribute.
C8_DescriptionPrefixHeading ==
    last.op = "get_projects" =>
        ret.projects[1].description
            = DescriptionBy(PrefixSection(ParsedLines), FallbackLine(ParsedLines))

\* The section of a document opened by "## Descriptions" has given the
\* description, where the fallback would have given the line before the heading.
C8_Witness ==
    /\ last.op = "get_projects"
    /\ ParsedLines = << <<"a">>, SectionHeader(SectionName) \o <<"s">>, <<"b">> >>
    /\ ret.projects[1].description = <<"b">>

\* C9: parse_project returns a Project for every document, and what the
\* document lacks takes its default: status "Unknown" without a line beginning
\* with "status:" in any case, category "personal" without a line beginning with
\* "category:", the file stem as name without a line beginning with "# ", an
\* empty description when neither the section nor the fallback yields a line.
C9_TotalWithDefaults ==
    last.op = "get_projects" =>
        LET p == ret.projects[1]
            L == ParsedLines
        IN  /\ Len(ret.projects) = 1
            /\ p.id = P1
            /\ p.task_count = Len(p.tasks)
            /\ p.tasks_done = Cardinality({i \in 1..Len(p.tasks) : p.tasks[i].done})
            /\ (\A i \in 1..Len(L) : ~StartsWith(ToLowercase(L[i]), StatusKey))
                  => p.status = DefaultStatus
            /\ (\A i \in 1..Len(L) : ~StartsWith(ToLowercase(L[i]), CategoryKey))
                  => p.category = DefaultCategory
            /\ (\A i \in 1..Len(L) : ~StartsWith(L[i], H1Prefix)) => p.name = P1
            /\ (~PrefixSection(L).some /\ ~FallbackLine(L).some) => p.description = Empty

\* A document of one "Priority: 1" line has parsed to all four defaults.
C9_Witness ==
    /\ last.op = "get_projects"
    /\ ParsedLines = << PrioritySkip \o <<" ", "1">> >>
    /\ ret.projects[1].status = DefaultStatus
    /\ ret.projects[1].category = DefaultCategory
    /\ ret.projects[1].name = P1
    /\ ret.projects[1].description = Empty

----------------------------------------------------------------------------
(* C10. *)

\* C10: a checkbox line whose marker is none of "- [ ]", "- [x]", "- [X]" is
\* collected by parse_project as the task of its ordinal, with done = FALSE and
\* with the whole trimmed line, marker included, as its text.
C10_MalformedKept ==
    last.op = "get_projects" =>
        \A n \in 1..Len(ret.projects) :
            ret.projects[n].id = P1 =>
                LET L == Lines(ContentOf(before, P1))
                IN  \A k \in 0..(CheckboxCount(L) - 1) :
                        ~WellFormed(L[LineOfTask(L, k)]) =>
                            /\ k < Len(ret.projects[n].tasks)
                            /\ ret.projects[n].tasks[k + 1]
                                  = [text |-> Trim(L[LineOfTask(L, k)]), done |-> FALSE]

\* The listing holds the line "- [?] w" as the second task of its document.
C10_Witness ==
    /\ last.op = "get_projects"
    /\ \E n \in 1..Len(ret.projects) :
          /\ ret.projects[n].id = P1
          /\ ret.projects[n].task_count = 2
          /\ ret.projects[n].tasks[2] = [text |-> <<"-", " ", "[", "?", "]", " ", "w">>,
                                         done |-> FALSE]

----------------------------------------------------------------------------
(* C11, under ListSpec. *)

\* The entries of a directory that are documents and can be read as text.
ReadableDocs(d) == {i \in 1..Len(d) : d[i].ext = MdExt /\ d[i].readable}

\* C11: get_projects never fails; it returns the empty sequence when the
\* projects directory cannot be read, and otherwise exactly one Project for
\* each entry with extension "md" that can be read as text, the Project that
\* entry parses to, whatever entries fail to read beside it.
C11_ListingNeverFails ==
    last.op = "get_projects" =>
        /\ ret.ok
        /\ ~listable => ret.projects = << >>
        /\ listable =>
              /\ Len(ret.projects) = Cardinality(ReadableDocs(before))
              /\ \A i \in ReadableDocs(before) :
                    /\ Cardinality({n \in 1..Len(ret.projects) :
                                       ret.projects[n].id = before[i].stem}) = 1
                    /\ \E n \in 1..Len(ret.projects) :
                          ret.projects[n] = parse_project(before[i].content, before[i].stem)

\* The listing of a directory whose second of three documents cannot be read
\* holds the first and the third.
C11_Witness ==
    /\ last.op = "get_projects"
    /\ listable
    /\ Len(before) = 3
    /\ \A i \in 1..3 : before[i].ext = MdExt
    /\ before[1].readable /\ ~before[2].readable /\ before[3].readable
    /\ {ret.projects[n].id : n \in 1..Len(ret.projects)} = {StemAt(1), StemAt(3)}

----------------------------------------------------------------------------
(* C12 to C15, under ParseSpec. *)

\* Everything after the first colon of a line.
AfterFirstColon(l) == SubSeq(l, FindFirst(l, <<":">>) + 1, Len(l))

\* The first line that begins with the key in any case, 0 if there is none.
KeyLine(lines, key) ==
    Least({i \in 1..Len(lines) : StartsWith(ToLowercase(lines[i]), key)})

\* C12: for the first line that begins case-insensitively with "status:" (with
\* "category:"), the parsed status (category) is everything after the first
\* colon of that line, trimmed; further colons and the text after them are kept.
C12_ValueAfterFirstColon ==
    last.op = "get_projects" =>
        LET p == ret.projects[1]
            L == ParsedLines
            s == KeyLine(L, StatusKey)
            c == KeyLine(L, CategoryKey)
        IN  /\ s # 0 => p.status = Trim(AfterFirstColon(L[s]))
            /\ c # 0 => p.category = Trim(AfterFirstColon(L[c]))

\* The trimmed line with one of the three six-character prefixes removed once.
StrippedOnce(trimmed) ==
    IF \/ StartsWith(trimmed, StripLower)
       \/ StartsWith(trimmed, StripUpper)
       \/ StartsWith(trimmed, StripOpen)
    THEN SubSeq(trimmed, 7, Len(trimmed))
    ELSE trimmed

\* C13: the text of every task is the trimmed checkbox line with exactly one
\* occurrence of the one prefix "- [x] ", "- [X] " or "- [ ] " that matches
\* removed from the front; a marker sequence inside the text is kept.
C13_TextStrippedOnce ==
    last.op = "get_projects" =>
        LET p == ret.projects[1]
            L == ParsedLines
        IN  /\ Len(p.tasks) = CheckboxCount(L)
            /\ \A k \in 0..(Len(p.tasks) - 1) :
                  p.tasks[k + 1].text = StrippedOnce(Trim(L[LineOfTask(L, k)]))

\* C14 as stated: done is true exactly when the trimmed checkbox line begins
\* with the six characters "- [x] " or "- [X] ", the space included.
C14_DoneNeedsSpace ==
    last.op = "get_projects" =>
        LET p == ret.projects[1]
            L == ParsedLines
        IN  /\ Len(p.tasks) = CheckboxCount(L)
            /\ \A k \in 0..(Len(p.tasks) - 1) :
                  LET t == Trim(L[LineOfTask(L, k)])
                  IN  p.tasks[k + 1].done
                          <=> (StartsWith(t, StripLower) \/ StartsWith(t, StripUpper))

\* C14 as amended: done is true exactly when the five characters the trimmed
\* checkbox line begins with are "- [x]" or "- [X]", whatever follows them.
C14_DoneByMarker ==
    last.op = "get_projects" =>
        LET p == ret.projects[1]
            L == ParsedLines
        IN  /\ Len(p.tasks) = CheckboxCount(L)
            /\ \A k \in 0..(Len(p.tasks) - 1) :
                  p.tasks[k + 1].done
                      <=> MarkerOf(L[LineOfTask(L, k)]) \in {MarkLower, MarkUpper}

\* The task lines "- [x]" and "- [X]z", neither with a space after its marker,
\* have both been parsed as done.
C14_Witness ==
    /\ last.op = "get_projects"
    /\ ParsedLines = << MarkLower, MarkUpper \o <<"z">> >>
    /\ Len(ret.projects[1].tasks) = 2
    /\ ret.projects[1].tasks[1].done
    /\ ret.projects[1].tasks[2].done

\* C15: the name is the first line that starts with "# " with these two
\* characters removed once; without such a line it is the file stem, which is
\* the id too.
C15_NameStrippedOnce ==
    last.op = "get_projects" =>
        LET p == ret.projects[1]
            L == ParsedLines
            h == Least({i \in 1..Len(L) : StartsWith(L[i], H1Prefix)})
        IN  /\ p.id = P1
            /\ p.name = IF h = 0 THEN P1 ELSE SubSeq(L[h], 3, Len(L[h]))

----------------------------------------------------------------------------
(* C16, under Spec: orig is the directory before the first call, odd the    *)
(* (document, ordinal) pairs toggled successfully an odd number of times.    *)

\* The documents that can be read.
ReadableIds == {dir[i].stem : i \in ReadableDocs(dir)}

\* The tasks field of the Project parse_project returns for a document.
ReportedTasks(d, id) == TasksOf(Lines(ContentOf(d, id)))

\* C16: after any sequence of sequential successful toggle_task calls on a
\* document, its checkbox lines are as many and at the same places as at the
\* start; a task whose marker is "- [ ]", "- [x]" or "- [X]" has a done value
\* different from its first one exactly when it was toggled an odd number of
\* times; a task with a malformed marker is never done.
C16_ParityOfToggles ==
    \A id \in ReadableIds :
        LET O == Lines(ContentOf(orig, id))
            L == Lines(ContentOf(dir, id))
            was == ReportedTasks(orig, id)
            now == ReportedTasks(dir, id)
        IN  /\ Len(L) = Len(O)
            /\ \A i \in 1..Len(O) : IsCheckboxLine(L[i]) <=> IsCheckboxLine(O[i])
            /\ Len(now) = CheckboxCount(O)
            /\ \A k \in 0..(CheckboxCount(O) - 1) :
                  IF WellFormed(O[LineOfTask(O, k)])
                  THEN (now[k + 1].done # was[k + 1].done) <=> (<<id, k>> \in odd)
                  ELSE ~now[k + 1].done

\* Of two tasks, the first has been toggled once and the second twice in a
\* row: the first is reported with the other done value, the second with its own.
C16_Witness ==
    /\ ToggledOk
    /\ last.id = P1
    /\ last.k = 1
    /\ run = 2
    /\ odd = {<<P1, 0>>}
    /\ CheckboxCount(Lines(ContentOf(orig, P1))) = 2
    /\ ReportedTasks(dir, P1)[1].done # ReportedTasks(orig, P1)[1].done
    /\ ReportedTasks(dir, P1)[2].done = ReportedTasks(orig, P1)[2].done

====
